---- MODULE Spec2Model ----
(***************************************************************************)
(* Model of upsonicai.py: the POST /get-company-news/ handler, the         *)
(* SerpAPITool.search adapter it hands to the agent as a tool, and the     *)
(* request schema CompanyInput.                                            *)
(*                                                                         *)
(* The agent runtime (upsonic Agent.do) and the upstream search service    *)
(* are external: the agent is a nondeterministic process that may call     *)
(* the adapter, may use the generic Search tool, and ends by leaving a     *)
(* structured response, an empty/absent response, or by raising.  The      *)
(* upstream service answers each outbound request with any status and      *)
(* body.                                                                   *)
(***************************************************************************)
EXTENDS Integers, Sequences, FiniteSets, TLC

(* ---------------------------- bounds ---------------------------------- *)

\* Longest "organic" list the upstream service returns.
MaxResults == 12

\* How many times the agent calls SerpAPITool.search within one do().
MaxToolCalls == 2

(* ----------------------- program constants ---------------------------- *)

\* search_results[:10]
MaxArticles == 10

\* response.status_code == 200
StatusOK == 200

\* HTTPException(status_code=500, ...)
StatusError == 500

\* FastAPI's answer to a body that fails the CompanyInput schema.
StatusUnprocessable == 422

NoTitle == "No Title"
NoLink == "#"
NoDescription == "No Description"
KeyNotFound == "SerpAPI API Key not found!"
RequestFailed == "SerpAPI Request Failed: "
FetchFailed == "Failed to fetch company news."
InternalServerError == "Internal Server Error"

(* ------------------------------- state -------------------------------- *)

VARIABLES
  env,        \* SERPAPI_API_KEY in the process environment
  pc,         \* per request: where its handling stands
  body,       \* per request: the posted JSON body
  news_task,  \* per request: the handler's local Task
  http,       \* per request: the HTTP response sent
  exc,        \* per request: the exception travelling up to FastAPI
  failed,     \* per request: SerpAPITool.search raised during this request
  running,    \* the request whose handler occupies the event loop
  agent,      \* the module-level news_agent while it executes do()
  call        \* the SerpAPITool.search call in progress

vars == <<env, pc, body, news_task, http, exc, failed, running, agent, call>>

(* ------------------------------ inputs -------------------------------- *)

\* Concurrent requests to POST /get-company-news/.
Reqs == {"r1", "r2"}
Nobody == "nobody"

\* Request bodies: company_name omitted, empty, or a name.
Bodies ==
  {[has_name |-> FALSE, company_name |-> ""]}
    \cup {[has_name |-> TRUE, company_name |-> c] : c \in {"", "Acme", "Globex"}}

\* os.getenv("SERPAPI_API_KEY"): unset (None), set to "", or set to a key.
EnvKeys ==
  {[set |-> FALSE, value |-> ""], [set |-> TRUE, value |-> ""],
   [set |-> TRUE, value |-> "secret"]}

\* One upstream result: a JSON object in which each of title, link and
\* snippet is a non-empty string, omitted, or an empty string.  Entry i of
\* the list of length n carries the (i + 9n)-th of the 27 combinations, so
\* the lists together show every combination among their first entries.
FieldState(p, k) ==
  CASE k = "title" -> p % 3
    [] k = "link" -> (p \div 3) % 3
    [] k = "snippet" -> (p \div 9) % 3

FieldText(i, k) ==
  CASE k = "title" -> "Title " \o ToString(i)
    [] k = "link" -> "https://news.example/" \o ToString(i)
    [] k = "snippet" -> "Snippet " \o ToString(i)

EntryAt(i, n) ==
  LET p == (i + 9 * n) % 27
      keys == {k \in {"title", "link", "snippet"} : FieldState(p, k) # 1}
  IN [k \in keys |-> IF FieldState(p, k) = 0 THEN FieldText(i, k) ELSE ""]

Organic(n) == [i \in 1..n |-> EntryAt(i, n)]

\* What response.json() yields: a parse failure, an object without
\* "organic", or an object with an "organic" list.
JsonBodies ==
  {[valid |-> FALSE, data |-> [k \in {} |-> <<>>]],
   [valid |-> TRUE, data |-> [k \in {} |-> <<>>]]}
    \cup {[valid |-> TRUE, data |-> [organic |-> Organic(n)]] :
            n \in 0..MaxResults}

\* Upstream answers: status 200 with any body; other statuses (one of them
\* a 2xx) with a text body.
Responses ==
  {[status_code |-> StatusOK, text |-> "{...}", json |-> j] : j \in JsonBodies}
    \cup {[status_code |-> s, text |-> t,
           json |-> [valid |-> FALSE, data |-> [k \in {} |-> <<>>]]] :
            s \in {201, 503}, t \in {"", "Service Unavailable"}}

NoResponse ==
  [status_code |-> 0, text |-> "",
   json |-> [valid |-> FALSE, data |-> [k \in {} |-> <<>>]]]

(* ---------------------------- exceptions ------------------------------ *)

NoError == [type |-> "none", status_code |-> 0, detail |-> ""]
HTTPException(status, detail) ==
  [type |-> "HTTPException", status_code |-> status, detail |-> detail]
\* Any exception that is not an HTTPException (JSONDecodeError, a failure
\* inside the agent runtime, ...).
OtherException(name) == [type |-> name, status_code |-> 0, detail |-> ""]

(* ------------------------- SerpAPITool.search ------------------------- *)

\* Mutation: `if api_key is None`.
NotKeyNoneOnly(api_key) == ~api_key.set

\* `not api_key`
NotKey(api_key) == ~api_key.set \/ api_key.value = ""

\* dict.get(key, default)
Get(d, key, default) == IF key \in DOMAIN d THEN d[key] ELSE default

\* News(title=..., url=..., snippet=...)
News(result) ==
  [title |-> Get(result, "title", NoTitle),
   url |-> Get(result, "link", NoLink),
   snippet |-> Get(result, "snippet", NoDescription)]

\* Mutation: search_results[-10:].
LastResults(search_results) ==
  SubSeq(search_results,
         IF Len(search_results) < MaxArticles THEN 1
                                               ELSE Len(search_results) - MaxArticles + 1,
         Len(search_results))

\* search_results[:10]
FirstResults(search_results) ==
  SubSeq(search_results, 1,
         IF Len(search_results) < MaxArticles THEN Len(search_results)
                                               ELSE MaxArticles)

\* [News(...) for result in search_results[:10]]
BuildArticles(search_results) ==
  LET kept == FirstResults(search_results)
  IN [i \in 1..Len(kept) |-> News(kept[i])]

\* Mutation: the detail without the response text.
FailedDetailNoText(response) == RequestFailed

\* f"SerpAPI Request Failed: {response.text}"
FailedDetail(response) == RequestFailed \o response.text

\* response.status_code == 200
IsOK(response) == response.status_code = StatusOK

IdleCall ==
  [pc |-> "idle", api_key |-> [set |-> FALSE, value |-> ""],
   response |-> NoResponse, outbound |-> 0, result |-> <<>>,
   error |-> NoError]

(* ------------------------------ handler ------------------------------- *)

\* f"Fetch the latest news about {input_data.company_name}."
Description(company_name) ==
  "Fetch the latest news about " \o company_name \o "."

NoTask == [built |-> FALSE, description |-> "",
           response |-> [kind |-> "None", articles |-> <<>>]]

\* Task(description=..., tools=[Search, SerpAPITool], response_format=NewsResponse)
Task(company_name) ==
  [built |-> TRUE, description |-> Description(company_name),
   response |-> [kind |-> "None", articles |-> <<>>]]

\* Mutation: `if news_data is None`.
FalsyNoneOnly(news_data) == news_data.kind = "None"

\* `not news_data`: None and empty values are falsy, a NewsResponse object
\* is truthy whatever its articles.
Falsy(news_data) == news_data.kind \in {"None", "empty"}

NoHttp == [status |-> 0, detail |-> "", company_name |-> "", articles |-> <<>>]
ErrorReply(status, detail) ==
  [status |-> status, detail |-> detail, company_name |-> "", articles |-> <<>>]

\* return {"company_name": ..., "articles": news_data.articles}
Payload(company_name, news_data) ==
  [status |-> StatusOK, detail |-> "", company_name |-> company_name,
   articles |-> news_data.articles]

\* Mutation: one module-level task shared by every request, as news_agent is.
TaskOfShared(r) ==
  IF \E t \in Reqs : news_task[t].built
    THEN CHOOSE t \in Reqs : news_task[t].built
    ELSE r

\* The task whose response the handler of request r reads: its own local
\* news_task.
TaskOf(r) == r

\* What the generic Search tool hands the agent: a page of web results, one
\* longer than MaxArticles.
WebResults ==
  [i \in 1..(MaxArticles + 1) |->
     [title |-> "Web " \o ToString(i), url |-> "https://web.example/" \o ToString(i),
      snippet |-> "Web snippet " \o ToString(i)]]

IdleAgent == [task |-> Nobody, calls |-> 0, have |-> FALSE, tool_result |-> <<>>]

Init ==
  /\ env \in EnvKeys
  /\ pc = [r \in Reqs |-> "new"]
  /\ body = [r \in Reqs |-> [has_name |-> FALSE, company_name |-> ""]]
  /\ news_task = [r \in Reqs |-> NoTask]
  /\ http = [r \in Reqs |-> NoHttp]
  /\ exc = [r \in Reqs |-> NoError]
  /\ failed = [r \in Reqs |-> FALSE]
  /\ running = Nobody
  /\ agent = IdleAgent
  /\ call = IdleCall

\* A client posts a body.
Receive(r) ==
  /\ pc[r] = "new"
  /\ \E b \in Bodies : body' = [body EXCEPT ![r] = b]
  /\ pc' = [pc EXCEPT ![r] = "received"]
  /\ UNCHANGED <<env, news_task, http, exc, failed, running, agent, call>>

\* FastAPI validates the body against CompanyInput (company_name: str): a
\* body without company_name is answered 422 and the handler is not called;
\* any string, the empty one included, passes.
Validate(r) ==
  /\ pc[r] = "received"
  /\ IF body[r].has_name
       THEN /\ pc' = [pc EXCEPT ![r] = "validated"]
            /\ http' = http
       ELSE /\ pc' = [pc EXCEPT ![r] = "done"]
            /\ http' = [http EXCEPT ![r] =
                          ErrorReply(StatusUnprocessable, "Field required")]
  /\ UNCHANGED <<env, body, news_task, exc, failed, running, agent, call>>

\* get_company_news, up to the call of news_agent.do.  The handler is an
\* async def without an await: once it starts it keeps the event loop until
\* it returns or raises.
BuildTask(r) ==
  /\ pc[r] = "validated"
  /\ running = Nobody
  /\ running' = r
  /\ news_task' = [news_task EXCEPT ![r] = Task(body[r].company_name)]
  /\ agent' = [IdleAgent EXCEPT !.task = r]
  /\ pc' = [pc EXCEPT ![r] = "agent"]
  /\ UNCHANGED <<env, body, http, exc, failed, call>>

\* The agent decides to call the tool SerpAPITool.search.
AgentCallsSearch(r) ==
  /\ pc[r] = "agent" /\ agent.task = r
  /\ call.pc = "idle"
  /\ agent.calls < MaxToolCalls
  /\ agent' = [agent EXCEPT !.calls = @ + 1]
  /\ call' = [IdleCall EXCEPT !.pc = "start"]
  /\ UNCHANGED <<env, pc, body, news_task, http, exc, failed, running>>

\* search: api_key = os.getenv(...); if not api_key: raise HTTPException.
SearchGetKey ==
  /\ call.pc = "start"
  /\ IF NotKey(env)
       THEN call' = [call EXCEPT !.api_key = env, !.pc = "raised",
                                 !.error = HTTPException(StatusError, KeyNotFound)]
       ELSE call' = [call EXCEPT !.api_key = env, !.pc = "post"]
  /\ UNCHANGED <<env, pc, body, news_task, http, exc, failed, running, agent>>

\* search: response = requests.post(url, headers=headers, data=payload).
SearchPost ==
  /\ call.pc = "post"
  /\ \E resp \in Responses :
       call' = [call EXCEPT !.response = resp, !.outbound = @ + 1,
                            !.pc = "status"]
  /\ UNCHANGED <<env, pc, body, news_task, http, exc, failed, running, agent>>

\* search: the branch on response.status_code.
SearchHandle ==
  /\ call.pc = "status"
  /\ IF IsOK(call.response)
       THEN IF call.response.json.valid
              THEN call' = [call EXCEPT
                              !.result = BuildArticles(
                                 Get(call.response.json.data, "organic", <<>>)),
                              !.pc = "returned"]
              ELSE call' = [call EXCEPT !.error = OtherException("JSONDecodeError"),
                                        !.pc = "raised"]
       ELSE call' = [call EXCEPT
                       !.error = HTTPException(StatusError, FailedDetail(call.response)),
                       !.pc = "raised"]
  /\ UNCHANGED <<env, pc, body, news_task, http, exc, failed, running, agent>>

\* The tool call returned its articles to the agent.
AgentGetsArticles(r) ==
  /\ pc[r] = "agent" /\ agent.task = r
  /\ call.pc = "returned"
  /\ agent' = [agent EXCEPT !.have = TRUE, !.tool_result = call.result]
  /\ call' = IdleCall
  /\ UNCHANGED <<env, pc, body, news_task, http, exc, failed, running>>

\* The tool call raised and the exception leaves news_agent.do.
AgentPropagates(r) ==
  /\ pc[r] = "agent" /\ agent.task = r
  /\ call.pc = "raised"
  /\ failed' = [failed EXCEPT ![r] = TRUE]
  /\ exc' = [exc EXCEPT ![r] = call.error]
  /\ pc' = [pc EXCEPT ![r] = "raised"]
  /\ agent' = IdleAgent
  /\ call' = IdleCall
  /\ UNCHANGED <<env, body, news_task, http, running>>

\* The tool call raised and the agent runtime reports the failure to the
\* model as a tool error; do() goes on.
AgentAbsorbs(r) ==
  /\ pc[r] = "agent" /\ agent.task = r
  /\ call.pc = "raised"
  /\ failed' = [failed EXCEPT ![r] = TRUE]
  /\ call' = IdleCall
  /\ UNCHANGED <<env, pc, body, news_task, http, exc, running, agent>>

\* The structured responses the agent may leave in the task.
AgentAnswers ==
  {[kind |-> "None", articles |-> <<>>], [kind |-> "empty", articles |-> <<>>],
   [kind |-> "NewsResponse", articles |-> <<>>],
   [kind |-> "NewsResponse", articles |-> WebResults]}
    \cup (IF agent.have
            THEN {[kind |-> "NewsResponse", articles |-> agent.tool_result]}
            ELSE {})

\* news_agent.do(news_task) returns, the task's response set.
AgentFinishes(r) ==
  /\ pc[r] = "agent" /\ agent.task = r
  /\ call.pc = "idle"
  /\ \E answer \in AgentAnswers :
       news_task' = [news_task EXCEPT ![r].response = answer]
  /\ agent' = IdleAgent
  /\ pc' = [pc EXCEPT ![r] = "returned"]
  /\ UNCHANGED <<env, body, http, exc, failed, running, call>>

\* news_agent.do(news_task) raises on its own account.
AgentFails(r) ==
  /\ pc[r] = "agent" /\ agent.task = r
  /\ call.pc = "idle"
  /\ exc' = [exc EXCEPT ![r] = OtherException("AgentError")]
  /\ agent' = IdleAgent
  /\ pc' = [pc EXCEPT ![r] = "raised"]
  /\ UNCHANGED <<env, body, news_task, http, failed, running, call>>

\* get_company_news after news_agent.do: news_data = news_task.response,
\* the falsy check, the returned payload.
MapResult(r) ==
  /\ pc[r] = "returned"
  /\ LET news_data == news_task[TaskOf(r)].response
     IN http' = [http EXCEPT ![r] =
                   IF Falsy(news_data)
                     THEN ErrorReply(StatusError, FetchFailed)
                     ELSE Payload(body[r].company_name, news_data)]
  /\ pc' = [pc EXCEPT ![r] = "done"]
  /\ running' = Nobody
  /\ UNCHANGED <<env, body, news_task, exc, failed, agent, call>>

\* An exception left the handler: FastAPI answers an HTTPException with its
\* status and detail, anything else with a plain 500.
ExceptionReply(r) ==
  /\ pc[r] = "raised"
  /\ http' = [http EXCEPT ![r] =
                IF exc[r].type = "HTTPException"
                  THEN ErrorReply(exc[r].status_code, exc[r].detail)
                  ELSE ErrorReply(StatusError, InternalServerError)]
  /\ pc' = [pc EXCEPT ![r] = "done"]
  /\ running' = Nobody
  /\ UNCHANGED <<env, body, news_task, exc, failed, agent, call>>

Next ==
  \/ \E r \in Reqs : Receive(r)
  \/ \E r \in Reqs : Validate(r)
  \/ \E r \in Reqs : BuildTask(r)
  \/ \E r \in Reqs : AgentCallsSearch(r)
  \/ SearchGetKey
  \/ SearchPost
  \/ SearchHandle
  \/ \E r \in Reqs : AgentGetsArticles(r)
  \/ \E r \in Reqs : AgentPropagates(r)
  \/ \E r \in Reqs : AgentAbsorbs(r)
  \/ \E r \in Reqs : AgentFinishes(r)
  \/ \E r \in Reqs : AgentFails(r)
  \/ \E r \in Reqs : MapResult(r)
  \/ \E r \in Reqs : ExceptionReply(r)

Spec == Init /\ [][Next]_vars

(* ------------------------------ claims ------------------------------- *)

Done(r) == pc[r] = "done"
Success(r) == Done(r) /\ http[r].status = StatusOK
NonEmptyFields(articles) ==
  \A i \in 1..Len(articles) :
    articles[i].title # "" /\ articles[i].url # "" /\ articles[i].snippet # ""
\* The "organic" list of the response the call in progress received.
Upstream ==
  IF "organic" \in DOMAIN call.response.json.data
    THEN call.response.json.data.organic
    ELSE <<>>
\* The call in progress has received the upstream response and ended.
Ended == call.pc \in {"returned", "raised"} /\ call.outbound = 1

\* C1: a successful response to a request with a non-empty company name
\* carries at most 10 articles, whatever structured result the agent left.
C1_AtMostTenArticles ==
  \A r \in Reqs :
    (Success(r) /\ body[r].company_name # "") =>
      Len(http[r].articles) <= MaxArticles

\* C2: every article of a successful response, and every article
\* SerpAPITool.search returns, has a non-empty title, url and snippet.
C2_NoEmptyField ==
  /\ \A r \in Reqs : Success(r) => NonEmptyFields(http[r].articles)
  /\ call.pc = "returned" => NonEmptyFields(call.result)

\* C3: a request whose company_name is missing or empty never reaches Task
\* construction or news_agent.do.
C3_EmptyNameRejected ==
  \A r \in Reqs :
    (pc[r] # "new" /\ body[r].company_name = "") =>
      (~news_task[r].built /\ pc[r] \in {"received", "done"})

\* C4: when news_agent.do returns and the task's response is absent or
\* empty, the request ends with status 500 and the generic failure message,
\* never with a 200 report.
C4_EmptyResultIs500 ==
  \A r \in Reqs :
    (Done(r) /\ news_task[r].built /\ exc[r].type = "none"
       /\ news_task[r].response.kind \in {"None", "empty"}) =>
      (http[r].status = StatusError /\ http[r].detail = FetchFailed)

C4_Witness ==
  \E r \in Reqs :
    /\ Done(r) /\ news_task[r].built /\ exc[r].type = "none"
    /\ news_task[r].response.kind = "empty"
    /\ http[r].status = StatusError

\* C5: with SERPAPI_API_KEY unset or empty, a call of SerpAPITool.search
\* raises the configuration error (500, fixed message) and issues no
\* outbound request.
C5_MissingKeyNoRequest ==
  (call.pc \notin {"idle", "start"} /\ (~env.set \/ env.value = "")) =>
    /\ call.pc = "raised"
    /\ call.error = [type |-> "HTTPException", status_code |-> StatusError,
                     detail |-> KeyNotFound]
    /\ call.outbound = 0

C5_Witness ==
  call.pc = "raised" /\ env.set /\ env.value = "" /\ call.outbound = 0

\* C6 as stated: every non-success status gives the upstream error carrying
\* the response text and no collection; every success (2xx) status gives a
\* collection and no error.
C6_Original ==
  Ended =>
    IF call.response.status_code >= 200 /\ call.response.status_code < 300
      THEN call.pc = "returned" /\ call.error.type = "none"
      ELSE /\ call.pc = "raised"
           /\ call.error.type = "HTTPException"
           /\ call.error.detail = RequestFailed \o call.response.text
           /\ call.result = <<>>

\* C6 as amended: every status other than 200 gives the upstream error (500)
\* whose detail is the fixed prefix followed by the response text unchanged,
\* and no collection; status 200 with a body that parses gives a collection
\* and no error.
C6_Amended ==
  Ended =>
    /\ call.response.status_code # StatusOK =>
         /\ call.pc = "raised"
         /\ call.error = [type |-> "HTTPException", status_code |-> StatusError,
                          detail |-> RequestFailed \o call.response.text]
         /\ call.result = <<>>
    /\ (call.response.status_code = StatusOK /\ call.response.json.valid) =>
         (call.pc = "returned" /\ call.error.type = "none")

C6_Witness ==
  /\ call.pc = "raised"
  /\ call.response.status_code = 503
  /\ call.response.text = "Service Unavailable"
  /\ call.error.detail = "SerpAPI Request Failed: Service Unavailable"

\* C7: on a successful upstream response with n results the call returns
\* min(n, 10) articles, the i-th built from the i-th result.
C7_FirstTenInOrder ==
  call.pc = "returned" =>
    /\ Len(call.result) =
         (IF Len(Upstream) < MaxArticles THEN Len(Upstream) ELSE MaxArticles)
    /\ \A i \in 1..Len(call.result) :
         /\ call.result[i].title =
              (IF "title" \in DOMAIN Upstream[i] THEN Upstream[i].title ELSE NoTitle)
         /\ call.result[i].url =
              (IF "link" \in DOMAIN Upstream[i] THEN Upstream[i].link ELSE NoLink)
         /\ call.result[i].snippet =
              (IF "snippet" \in DOMAIN Upstream[i] THEN Upstream[i].snippet
                                                    ELSE NoDescription)

C7_Witness ==
  /\ call.pc = "returned"
  /\ Len(Upstream) = MaxArticles + 2
  /\ Len(call.result) = MaxArticles
  /\ call.result[1] # call.result[MaxArticles]
  /\ call.result[MaxArticles].url = Upstream[MaxArticles].link

\* C8: a request in which the agent invocation or SerpAPITool.search failed
\* ends with status 500 and a detail message, never with a 200 payload.
C8_FailureIs500 ==
  \A r \in Reqs :
    (Done(r) /\ (failed[r] \/ exc[r].type # "none")) =>
      (http[r].status = StatusError /\ http[r].detail # "")

C10_OneAttemptTerminal ==
  /\ call.outbound <= 1
  /\ \A r \in Reqs :
       failed[r] =>
         /\ pc[r] \in {"raised", "done"}
         /\ Done(r) => http[r].status # StatusOK
====
